---- MODULE Spec2Model ----
(***************************************************************************)
(* A model of rummelplatz's Ring::run (src/src/lib.rs): the multiplexing   *)
(* event loop over an io_uring, its SubmissionQueueSubmitter, the backlog, *)
(* the boxed user-data tokens and the shutdown (cancel/barrier) protocol.  *)
(*                                                                         *)
(* The ring facility is the environment: it takes every entry of the SQ on *)
(* submit, and posts for each entry it holds zero or more completions      *)
(* flagged MORE followed by one completion without the flag.  Handlers are *)
(* inputs: what they push and what they return is chosen with \E.          *)
(***************************************************************************)
EXTENDS Integers, Sequences, FiniteSets, TLC

\* ---------------------------------------------------------------- bounds
SQCap == 2           \* entries of the submission queue (ring_size)
NSlots == 2          \* handler slots declared in the ring! macro
MaxEntries == 4      \* entries the handlers try to push, plus MORE completions
MaxSetupPushes == 2  \* push calls within one setup invocation
MaxCallPushes == 1   \* push calls within one on_completion callback
MaxTeardownPushes == 2   \* push calls within one on_teardown_completion
MaxTeardownEntries == 5  \* as MaxEntries, for a teardown callback pushing twice
MaxMore == 1         \* completions flagged MORE the kernel posts in a run
MaxLimit == 2        \* the backlog_limit tried besides None (written 0)

\* ------------------------------------------------------ program constants
IORING_CQE_F_MORE == 2

Slots == 1..NSlots
MaxBatch == SQCap + 1            \* a batch may be larger than the SQ itself
U64MAX == "u64::MAX"             \* the payload of the barrier token

VARIABLES
    pc,                 \* where run is: setup, submit, wait, cq, shutdown,
                        \* csubmit, cwait, ccq, done (run returned),
                        \* unreachable (panic of unreachable!()), abort
                        \* (the process died on a dangling read)
    slotIdx,            \* the slot whose setup runs next
    sq,                 \* submission queue: entries pushed, not yet submitted
    kernel,             \* entries the kernel holds (submitted, not terminal)
    cq,                 \* completion queue: <<[e, flags]>>, oldest first
    backlog,            \* VecDeque<Box<[Entry]>>: batches, front first
    inflight_requests,  \* Ring.inflight_requests
    backlog_limit,      \* Ring.backlog_limit (0: None)
    result,             \* run's result slot
    ents,               \* every entry handed to a push: slot, user_data, ...
    heap,               \* Box<UserData> allocations, indexed by token
    moreUsed,           \* completions flagged MORE the kernel has posted
    calls,              \* callback invocations so far
    sqLog,              \* entries in the order they entered the SQ
    spillLog,           \* batches (first entry) in the order they were spilled
    dlog,               \* callbacks dispatched for completions, in order
    compErr,            \* entry whose on_completion returned Error (0: none)
    barrierSeen,        \* times the teardown loop decoded Cancel(MAX)
    lastFlow            \* what the latest on_completion returned ("": none yet)

vars == <<pc, slotIdx, sq, kernel, cq, backlog, inflight_requests,
          backlog_limit, result, ents, heap, moreUsed, calls, sqLog,
          spillLog, dlog, compErr, barrierSeen, lastFlow>>

\* ------------------------------------------------------------ token codec
\* UserData::$ring_op_name(data) boxed by From<UserData> for u64.
OpToken(s, d) ==
    [st |-> "live", tag |-> "Op", slot |-> s, data |-> d, dec |-> 0, dang |-> 0]

\* UserData::Cancel(u64::MAX), boxed for the barrier.
CancelToken ==
    [st |-> "live", tag |-> "Cancel", slot |-> 0, data |-> U64MAX, dec |-> 0, dang |-> 0]

\* io_uring::cqueue::more(flags)
more(flags) == (flags \div IORING_CQE_F_MORE) % 2 = 1

\* What UserData::from_raw(t) yields.  A live box yields its record.  A freed
\* box is a dangling pointer: the read may see the stale record under any
\* discriminant, the barrier's record when the allocator reused the block, or
\* the process dies.
Decoded(h, t) ==
    IF h[t].st = "live"
    THEN {[tag |-> h[t].tag, slot |-> h[t].slot, data |-> h[t].data]}
    ELSE {[tag |-> "Op", slot |-> s, data |-> h[t].data] : s \in Slots}
         \cup {[tag |-> "Cancel", slot |-> 0, data |-> U64MAX],
               [tag |-> "Abort", slot |-> 0, data |-> 0]}

\* ------------------------------------------------------------- submitter
\* The part of the ring a SubmissionQueueSubmitter borrows, plus the logs.
Cur ==
    [sq |-> sq, backlog |-> backlog, inflight |-> inflight_requests,
     ents |-> ents, heap |-> heap, sqLog |-> sqLog, spillLog |-> spillLog,
     ret |-> "Ok"]

\* sq.push_multiple(entries): all of the batch or none of it.
SqFits(q, batch) == Len(q) + Len(batch) <= SQCap

\* Mutant of CountPushed: the increment after a successful push is forgotten.
CountPushedForgotten(n, batch) == n

\* *self.inflight_requests += entries.len()
CountPushed(n, batch) == n + Len(batch)

\* self.backlog.len() + entries.len() <= limit.get(), None accepting all.
BacklogAccepts(bl, batch) ==
    backlog_limit = 0 \/ Len(bl) + Len(batch) <= backlog_limit

\* Mutant of BacklogPushBack: the spilled batch is put at the front.
BacklogPushFront(bl, batch) == <<batch>> \o bl

\* self.backlog.push_back(entries)
BacklogPushBack(bl, batch) == Append(bl, batch)

\* Mutant of PushRaw: a batch that does not fit fills what is left of the SQ
\* and the call returns the error.
PushRawPartial(R, batch) ==
    IF SqFits(R.sq, batch)
    THEN [R EXCEPT !.sq = @ \o batch,
                   !.sqLog = @ \o batch,
                   !.inflight = CountPushed(@, batch),
                   !.ret = "Ok"]
    ELSE LET part == SubSeq(batch, 1, SQCap - Len(R.sq))
         IN [R EXCEPT !.sq = @ \o part,
                      !.sqLog = @ \o part,
                      !.inflight = CountPushed(@, part),
                      !.ret = "PushError"]

\* push_multiple_raw / push_slice_raw on a batch of entry ids; ret is the
\* Result the call returns: Ok(()) or Err(PushError).
PushRaw(R, batch) ==
    IF SqFits(R.sq, batch)
    THEN [R EXCEPT !.sq = @ \o batch,
                   !.sqLog = @ \o batch,
                   !.inflight = CountPushed(@, batch),
                   !.ret = "Ok"]
    ELSE IF BacklogAccepts(R.backlog, batch)
         THEN [R EXCEPT !.backlog = BacklogPushBack(@, batch),
                        !.spillLog = Append(@, batch[1]),
                        !.ret = "Ok"]
         ELSE [R EXCEPT !.ret = "PushError"]

\* One push call of slot s in callback invocation c.  p.kind:
\*   "fresh" push / push_multiple / push_slice: the wrapper boxes one token
\*           per entry (payload: the entry's id), then the batch is pushed raw;
\*   "zero"  push_raw of an entry whose user_data is 0;
\*   "reuse" push_raw of an entry carrying the token p.tok again.
Push(R, s, c, p) ==
    LET base == Len(R.ents)
        tok0 == Len(R.heap)
        ud(i) == IF p.kind = "fresh" THEN tok0 + i
                 ELSE IF p.kind = "reuse" THEN p.tok ELSE 0
        newEnts == [i \in 1..p.n |->
                      [slot |-> s, ud |-> ud(i), call |-> c,
                       batch |-> base + 1, op |-> "op", count |-> 0]]
        newToks == IF p.kind = "fresh"
                   THEN [i \in 1..p.n |-> OpToken(s, base + i)]
                   ELSE <<>>
        batch == [i \in 1..p.n |-> base + i]
    IN PushRaw([R EXCEPT !.ents = @ \o newEnts, !.heap = @ \o newToks], batch)

RECURSIVE ApplyPlan(_, _, _, _)
ApplyPlan(R, s, c, plan) ==
    IF plan = <<>> THEN R
    ELSE ApplyPlan(Push(R, s, c, Head(plan)), s, c, Tail(plan))

\* What one push call may be, and what one callback may push.
PushKinds ==
    {[n |-> k, kind |-> "fresh", tok |-> 0] : k \in 1..MaxBatch}
    \cup {[n |-> 1, kind |-> "zero", tok |-> 0]}

RECURSIVE PlanSize(_)
PlanSize(plan) ==
    IF plan = <<>> THEN 0 ELSE Head(plan).n + PlanSize(Tail(plan))

\* The entries handler callbacks have tried to push so far, plus the MORE
\* completions posted: what MaxEntries bounds.
Attempted ==
    Cardinality({e \in DOMAIN ents : ents[e].op = "op"}) + moreUsed

Plans(maxPushes) ==
    {plan \in {<<>>} \cup UNION {[1..k -> PushKinds] : k \in 1..maxPushes} :
        Attempted + PlanSize(plan) <= MaxEntries}

\* What one on_teardown_completion may push: what on_completion may, or
\* MaxTeardownPushes batches, each of which an empty SQ could hold.
TeardownPlans ==
    Plans(MaxCallPushes) \cup
    {plan \in [1..MaxTeardownPushes ->
                  {p \in PushKinds : p.kind = "fresh" /\ p.n <= SQCap}] :
        Attempted + PlanSize(plan) <= MaxTeardownEntries}

Commit(R) ==
    /\ sq' = R.sq
    /\ backlog' = R.backlog
    /\ inflight_requests' = R.inflight
    /\ ents' = R.ents
    /\ heap' = R.heap
    /\ sqLog' = R.sqLog
    /\ spillLog' = R.spillLog

\* ------------------------------------------------------------------ Init
NoError == [kind |-> "Ok", e |-> 0]

Init ==
    /\ pc = "setup"
    /\ slotIdx = 1
    /\ sq = <<>>
    /\ kernel = {}
    /\ cq = <<>>
    /\ backlog = <<>>
    /\ inflight_requests = 0
    /\ backlog_limit \in {0, MaxLimit}
    /\ result = NoError
    /\ ents = <<>>
    /\ heap = <<>>
    /\ moreUsed = 0
    /\ calls = 0
    /\ sqLog = <<>>
    /\ spillLog = <<>>
    /\ dlog = <<>>
    /\ compErr = 0
    /\ barrierSeen = 0
    /\ lastFlow = ""

\* ----------------------------------------------------------------- setup
\* Mutant of SetupNext: a setup error does not end run.
SetupNextIgnoringErr(ok, s) == IF s = NSlots THEN "submit" ELSE "setup"

\* Where run goes after setup of slot s: the next slot's setup, the loop after
\* the last one, or the return of line 322 on Err.
SetupNext(ok, s) ==
    IF ok THEN (IF s = NSlots THEN "submit" ELSE "setup") ELSE "done"

\* run, lines 315-323: setup of slot slotIdx; an Err returns at once.
Setup ==
    /\ pc = "setup"
    /\ \E plan \in Plans(MaxSetupPushes), ok \in BOOLEAN :
         /\ Commit(ApplyPlan(Cur, slotIdx, calls + 1, plan))
         /\ calls' = calls + 1
         /\ pc' = SetupNext(ok, slotIdx)
         /\ IF ok
            THEN /\ result' = result
                 /\ slotIdx' = slotIdx + 1
            ELSE /\ result' = [kind |-> "Setup", e |-> slotIdx]
                 /\ slotIdx' = slotIdx
    /\ UNCHANGED <<kernel, cq, backlog_limit, moreUsed, dlog, compErr, barrierSeen, lastFlow>>

\* -------------------------------------------------------- operational loop
\* 'ring_loop, lines 327-328: sq.sync(); submit.submit_and_wait(1) hands every
\* entry of the SQ to the kernel, then blocks until a completion is there.
Submit ==
    /\ pc = "submit"
    /\ kernel' = kernel \cup {sq[i] : i \in DOMAIN sq}
    /\ sq' = <<>>
    /\ pc' = "wait"
    /\ UNCHANGED <<slotIdx, cq, backlog, inflight_requests, backlog_limit,
                   result, ents, heap, moreUsed, calls, sqLog, spillLog, dlog,
                   compErr, barrierSeen, lastFlow>>

\* submit_and_wait(1)?: the io_uring_enter call fails, run returns Api.
ApiError ==
    /\ pc = "submit"
    /\ result' = [kind |-> "Api", e |-> 0]
    /\ pc' = "done"
    /\ UNCHANGED <<slotIdx, sq, kernel, cq, backlog, inflight_requests,
                   backlog_limit, ents, heap, moreUsed, calls, sqLog, spillLog,
                   dlog, compErr, barrierSeen, lastFlow>>

\* Completions are posted while run waits in submit_and_wait (the ring is built
\* with DEFER_TASKRUN; and a completion posted at any other time is not seen
\* before the cq.sync() that follows the next wait anyway).
Waiting == pc \in {"wait", "cwait"}

\* The cancel-all entry completes inline at submission, so the barrier pushed
\* right after it completes after it: the no-op at once, the timeout, built
\* without the drain flag, on its completion count or when SHUTDOWN_TIMEOUT
\* expires, whatever else is still in flight.  Any other entry completes
\* whenever the kernel is done with it, in no particular order.
MayComplete(e) ==
    ents[e].op \in {"nop", "timeout"} => \A o \in kernel : ents[o].op # "cancel"

\* The terminal completion of an entry: flags without MORE.
KernelComplete ==
    /\ Waiting
    /\ \E e \in kernel :
         /\ MayComplete(e)
         /\ kernel' = kernel \ {e}
         /\ cq' = Append(cq, [e |-> e, flags |-> 0])
    /\ UNCHANGED <<pc, slotIdx, sq, backlog, inflight_requests, backlog_limit,
                   result, ents, heap, moreUsed, calls, sqLog, spillLog, dlog,
                   compErr, barrierSeen, lastFlow>>

\* A completion flagged MORE for a multishot entry a handler pushed.
KernelMore ==
    /\ Waiting
    /\ moreUsed < MaxMore
    /\ Attempted < MaxEntries
    /\ \E e \in kernel :
         /\ ents[e].op = "op"
         /\ cq' = Append(cq, [e |-> e, flags |-> IORING_CQE_F_MORE])
    /\ moreUsed' = moreUsed + 1
    /\ UNCHANGED <<pc, slotIdx, sq, kernel, backlog, inflight_requests,
                   backlog_limit, result, ents, heap, calls, sqLog, spillLog,
                   dlog, compErr, barrierSeen, lastFlow>>

\* self.backlog.push_front(entries) after a failed push from the backlog.
RestoreHead(b, rest) == <<b>> \o rest

\* lines 330-337: while let Some(entries) = self.backlog.pop_front() ...
RECURSIVE DrainBacklog(_)
DrainBacklog(R) ==
    IF R.backlog = <<>> THEN R
    ELSE LET entries == Head(R.backlog)
             rest == Tail(R.backlog)
         IN IF SqFits(R.sq, entries)
            THEN DrainBacklog([R EXCEPT !.backlog = rest,
                                        !.sq = @ \o entries,
                                        !.sqLog = @ \o entries,
                                        !.inflight = CountPushed(@, entries)])
            ELSE [R EXCEPT !.backlog = RestoreHead(entries, rest)]

\* submit_and_wait(1) returns (a completion is there), the backlog is drained
\* and cq.sync() makes the posted completions visible to the for loop.
WaitDone ==
    /\ pc = "wait"
    /\ cq # <<>>
    /\ Commit(DrainBacklog(Cur))
    /\ pc' = "cq"
    /\ UNCHANGED <<slotIdx, kernel, cq, backlog_limit, result, moreUsed, calls,
                   dlog, compErr, barrierSeen, lastFlow>>

\* Mutant of CountCompleted: the MORE flag is not looked at.
CountCompletedAlways(n, flags) == n - 1

\* self.inflight_requests -= 1 on a completion without MORE.  usize arithmetic:
\* a value below zero stands for the wrapped value 2^64 + n.
CountCompleted(n, flags) == IF more(flags) THEN n ELSE n - 1

\* UserData::from_raw(cqe.user_data()): one more decode of the token, a
\* dangling one when the box was freed by the decode before it.
FromRaw(tokrec) ==
    [tokrec EXCEPT !.dec = @ + 1,
                   !.dang = @ + (IF tokrec.st = "freed" THEN 1 ELSE 0)]

\* Box<UserData> at the end of a dispatch: dropped (freed), or, with
\* Some(new_data), overwritten in place and forgotten.  A box that was already
\* freed stays freed memory.
AfterDispatch(tokrec, keep, d) ==
    IF keep
    THEN [FromRaw(tokrec) EXCEPT !.data = d]
    ELSE [FromRaw(tokrec) EXCEPT !.st = "freed"]

Flows == {"Continue", "Exit", "Warn", "Error"}

\* What on_completion may return as new payload: None; "Keep": Some(payload)
\* on a completion flagged MORE (the entry still owns the token); "Reuse":
\* Some(payload) on a terminal completion, after a push_raw of one entry that
\* carries the token again (section 4.5's convention).
NewData(c) ==
    IF more(c.flags) THEN {"None", "Keep"}
    ELSE {"None"} \cup (IF Attempted < MaxEntries THEN {"Reuse"} ELSE {})

\* Mutant of EndsOperation: Warn breaks the loop as well.
EndsOperationOnWarn(flow) == flow \in {"Exit", "Error", "Warn"}

\* match flow, lines 377-388: Exit and Error break 'ring_loop; Warn logs and
\* continues with the next completion, as Continue does.
EndsOperation(flow) == flow \in {"Exit", "Error"}

\* One iteration of 'completion_loop, lines 340-389.
OnCompletion ==
    /\ pc = "cq"
    /\ cq # <<>>
    /\ LET c == Head(cq)
           t == ents[c.e].ud
           n1 == CountCompleted(inflight_requests, c.flags)
           next == IF Len(cq) = 1 THEN "submit" ELSE "cq"
       IN /\ cq' = Tail(cq)
          /\ IF t = 0
             THEN \* user_data 0: dropped
                  /\ inflight_requests' = n1
                  /\ pc' = next
                  /\ UNCHANGED <<sq, backlog, ents, heap, sqLog, spillLog,
                                 calls, dlog, result, compErr, lastFlow>>
             ELSE \E v \in Decoded(heap, t) :
                  IF v.tag # "Op"
                  THEN \* UserData::Cancel(_) => unreachable!(), or the
                       \* dangling read killed the process
                       /\ inflight_requests' = n1
                       /\ heap' = [heap EXCEPT ![t] = FromRaw(@)]
                       /\ pc' = IF v.tag = "Cancel" THEN "unreachable"
                                ELSE "abort"
                       /\ UNCHANGED <<sq, backlog, ents, sqLog, spillLog,
                                      calls, dlog, result, compErr, lastFlow>>
                  ELSE \E flow \in Flows, nd \in NewData(c) :
                       \E plan \in {p \in Plans(MaxCallPushes) : nd = "Reuse" =>
                                      Attempted + 1 + PlanSize(p) <= MaxEntries} :
                       LET reuse == IF nd = "Reuse"
                                    THEN <<[n |-> 1, kind |-> "reuse", tok |-> t]>>
                                    ELSE <<>>
                           R0 == [Cur EXCEPT !.inflight = n1]
                           R1 == ApplyPlan(R0, v.slot, calls + 1, reuse \o plan)
                           d == IF nd = "Reuse" THEN Len(ents) + 1 ELSE v.data
                           R2 == [R1 EXCEPT !.heap[t] =
                                    AfterDispatch(@, nd # "None", d)]
                       IN /\ Commit(R2)
                          /\ calls' = calls + 1
                          /\ dlog' = Append(dlog,
                                 [e |-> c.e, slot |-> v.slot, data |-> v.data,
                                  cb |-> "on_completion", flags |-> c.flags])
                          /\ result' = IF flow = "Error"
                                       THEN [kind |-> "Completion", e |-> c.e]
                                       ELSE result
                          /\ compErr' = IF flow = "Error" THEN c.e ELSE compErr
                          /\ lastFlow' = flow
                          /\ pc' = IF EndsOperation(flow)
                                   THEN "shutdown" ELSE next
    /\ UNCHANGED <<slotIdx, kernel, backlog_limit, moreUsed, barrierSeen>>

\* ---------------------------------------------------------------- shutdown
\* self.inflight_requests += 2, after both pushes went through.
CountShutdown(n) == n + 2

\* lines 393-409: the cancel-all entry (user_data 0), then the barrier with a
\* freshly boxed Cancel(u64::MAX): a no-op when nothing is in flight, else a
\* timeout counting inflight_requests completions.  Either push failing
\* returns RingError::Push at once.
Shutdown ==
    /\ pc = "shutdown"
    /\ LET c == Len(ents) + 1
           b == Len(ents) + 2
           cancel == [slot |-> 0, ud |-> 0, call |-> 0, batch |-> c,
                      op |-> "cancel", count |-> 0]
           barrier == [slot |-> 0, ud |-> Len(heap) + 1, call |-> 0,
                       batch |-> b,
                       op |-> IF inflight_requests = 0 THEN "nop" ELSE "timeout",
                       count |-> inflight_requests]
       IN IF ~SqFits(sq, <<c>>)
          THEN /\ result' = [kind |-> "Push", e |-> 0]
               /\ pc' = "done"
               /\ UNCHANGED <<sq, sqLog, ents, heap, inflight_requests>>
          ELSE IF ~SqFits(sq \o <<c>>, <<b>>)
          THEN /\ sq' = sq \o <<c>>
               /\ sqLog' = sqLog \o <<c>>
               /\ ents' = Append(ents, cancel)
               /\ heap' = Append(heap, CancelToken)
               /\ result' = [kind |-> "Push", e |-> 0]
               /\ pc' = "done"
               /\ UNCHANGED inflight_requests
          ELSE /\ sq' = sq \o <<c, b>>
               /\ sqLog' = sqLog \o <<c, b>>
               /\ ents' = ents \o <<cancel, barrier>>
               /\ heap' = Append(heap, CancelToken)
               /\ inflight_requests' = CountShutdown(inflight_requests)
               /\ pc' = "csubmit"
               /\ UNCHANGED result
    /\ UNCHANGED <<slotIdx, kernel, cq, backlog, backlog_limit, moreUsed, calls,
                   spillLog, dlog, compErr, barrierSeen, lastFlow>>

\* ----------------------------------------------------------- teardown loop
\* 'cancel_loop, lines 413-414.
SubmitTeardown ==
    /\ pc = "csubmit"
    /\ kernel' = kernel \cup {sq[i] : i \in DOMAIN sq}
    /\ sq' = <<>>
    /\ pc' = "cwait"
    /\ UNCHANGED <<slotIdx, cq, backlog, inflight_requests, backlog_limit,
                   result, ents, heap, moreUsed, calls, sqLog, spillLog, dlog,
                   compErr, barrierSeen, lastFlow>>

ApiErrorTeardown ==
    /\ pc = "csubmit"
    /\ result' = [kind |-> "Api", e |-> 0]
    /\ pc' = "done"
    /\ UNCHANGED <<slotIdx, sq, kernel, cq, backlog, inflight_requests,
                   backlog_limit, ents, heap, moreUsed, calls, sqLog, spillLog,
                   dlog, compErr, barrierSeen, lastFlow>>

\* submit_and_wait(1) returns; line 416 follows at once: the teardown loop has
\* no backlog step.
WaitDoneTeardown ==
    /\ pc = "cwait"
    /\ cq # <<>>
    /\ pc' = "ccq"
    /\ UNCHANGED <<slotIdx, sq, kernel, cq, backlog, inflight_requests,
                   backlog_limit, result, ents, heap, moreUsed, calls, sqLog,
                   spillLog, dlog, compErr, barrierSeen, lastFlow>>

\* lines 444-447: if let Err(e) = teardown_result { result = Err(Teardown(e)) }
TeardownResult(res, ok, e) ==
    IF ok THEN res ELSE [kind |-> "Teardown", e |-> e]

\* One iteration of the for loop of 'cancel_loop, lines 417-448.
OnTeardownCompletion ==
    /\ pc = "ccq"
    /\ cq # <<>>
    /\ LET c == Head(cq)
           t == ents[c.e].ud
           n1 == CountCompleted(inflight_requests, c.flags)
           next == IF Len(cq) = 1 THEN "csubmit" ELSE "ccq"
       IN /\ cq' = Tail(cq)
          /\ IF t = 0
             THEN /\ inflight_requests' = n1
                  /\ pc' = next
                  /\ UNCHANGED <<sq, backlog, ents, heap, sqLog, spillLog,
                                 calls, dlog, result, barrierSeen>>
             ELSE \E v \in Decoded(heap, t) :
                  IF v.tag = "Abort"
                  THEN /\ inflight_requests' = n1
                       /\ heap' = [heap EXCEPT ![t] = FromRaw(@)]
                       /\ pc' = "abort"
                       /\ UNCHANGED <<sq, backlog, ents, sqLog, spillLog,
                                      calls, dlog, result, barrierSeen>>
                  ELSE IF v.tag = "Cancel"
                  THEN \* UserData::Cancel(u64::MAX) => break 'cancel_loop
                       /\ inflight_requests' = n1
                       /\ heap' = [heap EXCEPT ![t] = AfterDispatch(@, FALSE, 0)]
                       /\ barrierSeen' = barrierSeen + 1
                       /\ pc' = "done"
                       /\ UNCHANGED <<sq, backlog, ents, sqLog, spillLog,
                                      calls, dlog, result>>
                  ELSE \E plan \in TeardownPlans, ok \in BOOLEAN :
                       LET R0 == [Cur EXCEPT !.inflight = n1]
                           R1 == ApplyPlan(R0, v.slot, calls + 1, plan)
                           R2 == [R1 EXCEPT !.heap[t] =
                                    AfterDispatch(@, FALSE, 0)]
                       IN /\ Commit(R2)
                          /\ calls' = calls + 1
                          /\ dlog' = Append(dlog,
                                 [e |-> c.e, slot |-> v.slot, data |-> v.data,
                                  cb |-> "on_teardown_completion",
                                  flags |-> c.flags])
                          /\ result' = TeardownResult(result, ok, c.e)
                          /\ pc' = next
                          /\ UNCHANGED barrierSeen
    /\ UNCHANGED <<slotIdx, kernel, backlog_limit, moreUsed, compErr, lastFlow>>

Next ==
    \/ Setup
    \/ Submit
    \/ ApiError
    \/ KernelComplete
    \/ KernelMore
    \/ WaitDone
    \/ OnCompletion
    \/ Shutdown
    \/ SubmitTeardown
    \/ ApiErrorTeardown
    \/ WaitDoneTeardown
    \/ OnTeardownCompletion

Spec == Init /\ [][Next]_vars

\* run keeps executing and the kernel keeps completing what it was given: a
\* step that can be taken is eventually taken.
FairSpec == Spec /\ WF_vars(Next)

\* ------------------------------------------------------------ where things are
Range(q) == {q[i] : i \in DOMAIN q}
InSQ == Range(sq)
InBacklog == UNION {Range(backlog[i]) : i \in DOMAIN backlog}
InCQ == {cq[i].e : i \in DOMAIN cq}
TerminalInCQ == {cq[i].e : i \in {j \in DOMAIN cq : ~more(cq[j].flags)}}
Entered == Range(sqLog)
Pos(e) == CHOOSE i \in DOMAIN sqLog : sqLog[i] = e
HandlerEntries == {e \in DOMAIN ents : ents[e].op = "op"}
BatchOf(b) == {e \in DOMAIN ents : ents[e].batch = b}
Returned == pc = "done"

\* Entry a entered the SQ, and did so before entry b.
EnteredBefore(a, b) == a \in Entered /\ (b \in Entered => Pos(a) < Pos(b))

\* No freed box has been decoded so far: the run has not left defined behaviour.
NoDanglingDecode == \A t \in DOMAIN heap : heap[t].dang = 0

\* Dispatches of completions without MORE that were made for entry e.
TerminalDispatches(e) ==
    {i \in DOMAIN dlog : dlog[i].e = e /\ ~more(dlog[i].flags)}

\* --------------------------------------------------------------------- C1
\* C1: when run returns, whatever the termination path, every token a push
\* (or the shutdown coordinator) allocated has been decoded and freed; none is
\* left undecoded in the SQ, the kernel, the CQ or the backlog.  (Stated for
\* the handler Exit and handler Error paths only, where run returns from the
\* teardown loop, and for the runs that stayed within defined behaviour.)
ReturnedAfterDrain == Returned /\ barrierSeen = 1 /\ NoDanglingDecode

C1_NoTokenLeakAtReturn ==
    ReturnedAfterDrain =>
        \A t \in DOMAIN heap : heap[t].dec > 0 /\ heap[t].st = "freed"

\* --------------------------------------------------------------------- C2
\* C2: no token is decoded more than once, completions flagged MORE included,
\* unless the handler re-installed it through the new-payload path before the
\* next completion: no completion decodes a token whose box the decode before
\* it released.
C2_DecodedAtMostOnce == NoDanglingDecode

\* --------------------------------------------------------------------- C3
\* C3: every token-carrying entry a handler got into the SQ is dispatched for a
\* terminal completion at most once, only to the slot that pushed it and with
\* the payload pushed with it, and exactly once by the time run returns.
\* (Stated for the runs that stayed within defined behaviour, and "by the
\* time run returns" for the returns from the teardown loop only.)
C3_OneTerminalDispatch ==
    \A e \in HandlerEntries \cap Entered :
        ents[e].ud # 0 /\ NoDanglingDecode =>
            /\ Cardinality(TerminalDispatches(e)) <= 1
            /\ \A i \in DOMAIN dlog :
                   dlog[i].e = e => dlog[i].slot = ents[e].slot /\ dlog[i].data = e
            /\ ReturnedAfterDrain => Cardinality(TerminalDispatches(e)) = 1

\* --------------------------------------------------------------------- C4
\* C4: the teardown loop observes Cancel(MAX) at most once, and when it does
\* no entry pushed before the barrier still has a completion pending in the
\* kernel or in the CQ.  (Stated for the runs that stayed within defined
\* behaviour.)
Barriers == {e \in DOMAIN ents : ents[e].op \in {"nop", "timeout"}}

C4_BarrierObservedLast ==
    /\ barrierSeen <= 1
    /\ barrierSeen = 1 /\ NoDanglingDecode =>
           \A b \in Barriers : \A e \in Entered :
               Pos(e) < Pos(b) => e \notin kernel \cup InCQ

\* --------------------------------------------------------------------- C5
\* C5: whenever run returns Ok the in-flight counter is zero.  (Stated for the
\* runs that stayed within defined behaviour.)
C5_CounterZeroAtOk ==
    Returned /\ result.kind = "Ok" /\ NoDanglingDecode => inflight_requests = 0

\* --------------------------------------------------------------------- C6
\* C6: when on_completion returned Error(e) and run returns after the shutdown
\* drain (the teardown loop ended on the barrier), run returns Completion(e):
\* no teardown error recorded later has replaced it.  (Stated for the runs
\* that stayed within defined behaviour.)
C6_CompletionErrorKept ==
    ReturnedAfterDrain /\ compErr # 0 =>
        result = [kind |-> "Completion", e |-> compErr]

Spilled(e) == \E i \in DOMAIN spillLog : spillLog[i] = ents[e].batch

C8_ProgramOrderInCallback ==
    \A a, b \in HandlerEntries :
        /\ ents[a].call = ents[b].call
        /\ ents[a].batch < ents[b].batch
        /\ Cardinality(BatchOf(ents[a].batch)) <= SQCap
        /\ a \in Entered \/ Spilled(a)
        /\ b \in Entered
        => EnteredBefore(a, b)

Owed == InSQ \cup kernel \cup TerminalInCQ

C10_CounterIsOwed ==
    inflight_requests >= 0 /\ inflight_requests = Cardinality(Owed)

\* -------------------------------------------------------------------- C11
\* C11: once an on_completion has returned Exit, no on_completion is invoked
\* again (in the dispatch log nothing follows an on_teardown_completion but
\* further on_teardown_completions), and every completion dispatched afterwards
\* goes to on_teardown_completion of the slot that pushed its entry.
TeardownDispatches == {i \in DOMAIN dlog : dlog[i].cb = "on_teardown_completion"}

C11_TeardownRoutingAfterExit ==
    lastFlow = "Exit" =>
        \A i \in TeardownDispatches :
            /\ dlog[i].slot = ents[dlog[i].e].slot
            /\ \A j \in DOMAIN dlog : i < j => j \in TeardownDispatches

\* -------------------------------------------------------------------- C12
\* C12: setup runs once per slot in declaration order (while run is in the
\* setup phase, exactly the slots before slotIdx had their setup called, each
\* pushing under its own slot); when a setup returns an error run has returned
\* that slot's Setup error at once: no later setup was called, nothing was
\* submitted to the kernel, no completion was processed and no completion
\* callback was called.
C12_SetupErrorReturnsAtOnce ==
    /\ pc = "setup" => calls = slotIdx - 1
    /\ \A e \in DOMAIN ents :
           ents[e].call \in 1..NSlots /\ ents[e].op = "op" =>
               ents[e].slot = ents[e].call
    /\ result.kind = "Setup" =>
           /\ Returned
           /\ result.e = slotIdx
           /\ calls = slotIdx
           /\ kernel = {} /\ cq = <<>> /\ dlog = <<>>
           /\ lastFlow = ""

\* The second slot's setup failed after the first one had pushed entries: run
\* has returned with them still in the SQ.
C12_Witness ==
    /\ result = [kind |-> "Setup", e |-> 2]
    /\ Returned
    /\ \E e \in InSQ : ents[e].slot = 1

\* -------------------------------------------------------------------- C13
\* C13: a batch push is atomic.  In every reachable state a push of a batch of
\* any length has exactly one of three outcomes: Ok with the whole batch
\* appended to the SQ in order, Ok with the whole batch appended to the backlog
\* as one element, or an error with the SQ, the backlog and the in-flight
\* counter unchanged.  Accordingly the batches that were taken are whole: the
\* entries of a batch are next to each other, in order, in the order of entry
\* into the SQ, and every element of the backlog is one whole batch.
NextBatch(n) == [i \in 1..n |-> Len(ents) + i]

SameBatch(a, b) ==
    a \in DOMAIN ents /\ b \in DOMAIN ents /\ ents[a].batch = ents[b].batch

WholeInSqLog ==
    \A i \in DOMAIN sqLog :
        LET e == sqLog[i]
        IN /\ SameBatch(e, e - 1) => i > 1 /\ sqLog[i - 1] = e - 1
           /\ SameBatch(e, e + 1) => i < Len(sqLog) /\ sqLog[i + 1] = e + 1

WholeInBacklog ==
    \A i \in DOMAIN backlog :
        LET q == backlog[i]
        IN /\ ~SameBatch(q[1], q[1] - 1)
           /\ ~SameBatch(q[Len(q)], q[Len(q)] + 1)
           /\ \A k \in DOMAIN q : q[k] = q[1] + k - 1 /\ SameBatch(q[k], q[1])

C13_BatchPushAtomic ==
    /\ \A n \in 1..MaxBatch :
           \A R \in {PushRaw(Cur, NextBatch(n))} :
              \/ /\ R.ret = "Ok"
                 /\ R.sq = sq \o NextBatch(n)
                 /\ R.backlog = backlog
              \/ /\ R.ret = "Ok"
                 /\ R.sq = sq
                 /\ R.backlog = Append(backlog, NextBatch(n))
              \/ /\ R.ret = "PushError"
                 /\ R.sq = sq
                 /\ R.backlog = backlog
                 /\ R.inflight = inflight_requests
    /\ WholeInSqLog
    /\ WholeInBacklog

\* A push of a batch was rejected while the SQ held entries: the batch's
\* entries are nowhere, and the SQ, the backlog and the counter show the
\* earlier pushes only.
C13_Witness ==
    /\ backlog_limit # 0
    /\ pc = "setup"
    /\ sq # <<>>
    /\ inflight_requests = Len(sq)
    /\ \E e \in HandlerEntries : e \notin Entered \cup InBacklog

\* -------------------------------------------------------------------- C14
\* C14: with an uncapped backlog and no Exit or Error, run never waits in
\* submit_and_wait with batches in the backlog while nothing is in flight and
\* no completion is there to wake it (from such a state no spilled batch is
\* ever moved into the SQ and no completion is ever processed again).
BlockedInWait == pc = "wait" /\ kernel = {} /\ cq = <<>>

C14_NeverBlockedWithBacklog ==
    backlog_limit = 0 /\ lastFlow \notin {"Exit", "Error"} =>
        ~(BlockedInWait /\ backlog # <<>>)

\* -------------------------------------------------------------------- C15
\* C15: when run returns after the shutdown drain, every entry a handler pushed
\* from on_teardown_completion (and that the push took) has had its terminal
\* completion dispatched to on_teardown_completion.  (Stated for the runs that
\* stayed within defined behaviour.)
PushedInTeardown(e) ==
    /\ ents[e].op = "op"
    /\ ents[e].call > NSlots
    /\ dlog[ents[e].call - NSlots].cb = "on_teardown_completion"

C15_TeardownPushesRouted ==
    ReturnedAfterDrain =>
        \A e \in DOMAIN ents :
            PushedInTeardown(e) /\ e \in Entered \cup InBacklog /\ ents[e].ud # 0 =>
                \E i \in TerminalDispatches(e) :
                    dlog[i].cb = "on_teardown_completion"

\* -------------------------------------------------------------------- C16
\* C16: a completion whose user_data is zero, in the operational and in the
\* teardown loop alike, is dropped: no callback is invoked, no token is decoded
\* or freed, the in-flight counter goes down by one exactly when the MORE flag
\* is clear, the result is untouched and the loop goes on with the next
\* completion (or, after the last one, with the next submit of the same loop).
ZeroAtHead ==
    pc \in {"cq", "ccq"} /\ cq # <<>> /\ ents[Head(cq).e].ud = 0

C16_ZeroUserDataDropped ==
    [][ZeroAtHead =>
          /\ cq' = Tail(cq)
          /\ calls' = calls /\ dlog' = dlog /\ heap' = heap
          /\ result' = result /\ barrierSeen' = barrierSeen
          /\ inflight_requests' =
                 IF (Head(cq).flags \div IORING_CQE_F_MORE) % 2 = 0
                 THEN inflight_requests - 1 ELSE inflight_requests
          /\ pc' = IF Len(cq) > 1 THEN pc
                   ELSE IF pc = "cq" THEN "submit" ELSE "csubmit"]_vars

\* Processed(e): entry e went to the kernel and all its completions were
\* taken off the CQ.
Processed(e) == e \in Entered /\ e \notin InSQ \cup kernel \cup InCQ

\* A handler's entry with user_data 0 has been completed with a MORE and a
\* terminal completion, both dropped (the one MORE completion of the run went
\* to no callback), and so has the cancel entry of the shutdown in the
\* teardown loop.
C16_Witness ==
    /\ moreUsed = 1
    /\ \A i \in DOMAIN dlog : ~more(dlog[i].flags)
    /\ \A i \in DOMAIN cq : ~more(cq[i].flags)
    /\ NoDanglingDecode
    /\ \E e \in HandlerEntries : ents[e].ud = 0 /\ Processed(e)
    /\ \E c \in DOMAIN ents : ents[c].op = "cancel" /\ Processed(c)

\* -------------------------------------------------------------------- C17
\* C17: an on_completion that returns Warn, like one that returns Continue,
\* leaves run's result alone and the loop goes on with the next completion (or
\* the next submit); the operational loop is left for the shutdown only when
\* on_completion returned Exit or Error.
Dispatching == pc = "cq" /\ calls' = calls + 1

C17_WarnIsNotFatal ==
    [][Dispatching =>
          /\ lastFlow' \in {"Warn", "Continue"} =>
                 /\ result' = result
                 /\ compErr' = compErr
                 /\ pc' = IF Len(cq) > 1 THEN "cq" ELSE "submit"
          /\ pc' = "shutdown" => lastFlow' \in {"Exit", "Error"}]_vars

\* Two completions in a row got Warn and the loop is still operational with
\* the result untouched.
C17_Witness ==
    /\ lastFlow = "Warn"
    /\ pc \in {"cq", "submit"}
    /\ Len(dlog) >= 2
    /\ result = NoError

\* -------------------------------------------------------------------- C18
\* C18: the teardown loop drains the backlog as the operational loop does:
\* while the teardown loop processes completions, the batch at the head of the
\* backlog is one that does not fit into the SQ (a batch that fitted when
\* submit_and_wait returned was moved, and the SQ has only grown since).
C18_TeardownDrainsBacklog ==
    pc = "ccq" /\ backlog # <<>> => ~SqFits(sq, Head(backlog))

\* The same statement for the operational loop, which does drain.
OperationalDrainsBacklog ==
    pc = "cq" /\ backlog # <<>> => ~SqFits(sq, Head(backlog))

\* -------------------------------------------------------------------- C19
\* C19: the protocol-violation branches are never taken: the operational loop
\* never decodes a Cancel token (the teardown loop's only Cancel token is the
\* barrier's Cancel(MAX), the one Cancel token there is).
C19_NoProtocolViolation ==
    /\ pc # "unreachable"
    /\ \A t \in DOMAIN heap : heap[t].tag = "Cancel" => heap[t].data = U64MAX

BacklogEntries == Cardinality(InBacklog)

InCallbackReach == pc \in {"setup", "cq", "ccq"}

C21_BacklogCapCountsEntries ==
    backlog_limit # 0 =>
        /\ BacklogEntries <= backlog_limit
        /\ \A n \in 1..MaxBatch :
               InCallbackReach /\ ~SqFits(sq, NextBatch(n)) =>
                   (PushRaw(Cur, NextBatch(n)).ret = "PushError"
                        <=> BacklogEntries + n > backlog_limit)

====
